---- MODULE Spec2Model ----
(***************************************************************************)
(* Model of egi2bids/mff2bids.py: the archive resolution _extract_folder   *)
(* and the conversion pipeline mff2bids (extract -> collision check ->     *)
(* load -> rename channels -> detect events -> write -> copy source).      *)
(*                                                                         *)
(* Python sequences are 0-based, TLA+ sequences 1-based: the channel at    *)
(* Python position i is element i + 1 here, and CH_NAMES_EGI[i] of the     *)
(* source is CH_NAMES_EGI[i + 1] here.  Positions in comments are the      *)
(* Python (0-based) ones unless said otherwise.                            *)
(***************************************************************************)
EXTENDS Integers, Sequences, FiniteSets, TLC

\* ------------------------------------------------------------------------
\* Constants of the program
\* ------------------------------------------------------------------------

\* mff2bids.py:22-56.  257 entries: 256 electrodes and "Cz", the reference.
CH_NAMES_EGI == <<
    "1", "F8", "3", "4", "F2", "6", "7", "8",
    "9", "AF8", "11", "AF4", "13", "14", "FCz", "16",
    "17", "FP2", "19", "20", "Fz", "22", "23", "FC1",
    "25", "FPz", "27", "28", "F1", "30", "31", "32",
    "33", "AF3", "35", "F3", "FP1", "38", "39", "40",
    "41", "FC3", "43", "C1", "45", "AF7", "F7", "F5",
    "FC5", "50", "51", "52", "53", "54", "55", "56",
    "57", "58", "C3", "60", "61", "FT7", "63", "C5",
    "65", "CP3", "FT9", "T9", "T7", "70", "71", "72",
    "73", "74", "75", "CP5", "77", "78", "CP1", "80",
    "81", "82", "83", "TP7", "85", "P5", "P3", "P1",
    "89", "CPz", "91", "92", "93", "TP9", "95", "P7",
    "PO7", "98", "99", "100", "Pz", "102", "103", "104",
    "105", "P9", "107", "108", "PO3", "110", "111", "112",
    "113", "114", "115", "O1", "117", "118", "POz", "120",
    "121", "122", "123", "124", "125", "Oz", "127", "128",
    "129", "130", "131", "132", "133", "134", "135", "136",
    "137", "138", "139", "PO4", "141", "P2", "CP2", "144",
    "145", "146", "147", "148", "149", "O2", "151", "152",
    "P4", "154", "155", "156", "157", "158", "159", "160",
    "PO8", "P6", "163", "CP4", "165", "166", "167", "168",
    "P10", "P8", "171", "CP6", "173", "174", "175", "176",
    "177", "178", "TP8", "180", "181", "182", "C4", "184",
    "C2", "186", "187", "188", "189", "TP10", "191", "192",
    "193", "C6", "195", "196", "197", "198", "199", "200",
    "201", "T8", "203", "204", "205", "FC4", "FC2", "208",
    "209", "T10", "FT8", "212", "FC6", "214", "215", "216",
    "217", "218", "FT10", "220", "221", "F6", "223", "F4",
    "225", "F10", "227", "228", "229", "230", "231", "232",
    "233", "234", "235", "236", "237", "238", "239", "240",
    "241", "242", "243", "244", "245", "246", "247", "248",
    "249", "250", "251", "F9", "253", "254", "255", "256",
    "Cz">>

\* mff2bids.py:149  `if i > 256: break`
RenameLimit == 256

\* mff2bids.py:155
stim_channel == "STI 014"

\* mff2bids.py:67  the extensions _check_value accepts
AllowedExtensions == {".tar", ".zip", ".mff"}

\* mff2bids.py:75  the extensions that are opened as archives
ArchiveExtensions == {".tar", ".zip"}

\* ------------------------------------------------------------------------
\* Bounds of the model
\* ------------------------------------------------------------------------

\* the largest channel count of a loaded recording
MaxChannels == 259
\* the largest event code on the stimulus channel
MaxCode == 2
\* the largest number of rows of an event table
MaxEvents == 2

\* ------------------------------------------------------------------------
\* Python values
\* ------------------------------------------------------------------------

\* None and a present value, for the optional values of the code
None == <<>>
Some(v) == <<v>>

NoError == [type |-> "", msg |-> ""]
Error(t, m) == [type |-> t, msg |-> m]

Range(s) == {s[k] : k \in DOMAIN s}

\* ------------------------------------------------------------------------
\* Channel renaming (mff2bids.py:146-152)
\* ------------------------------------------------------------------------

\* The last position the loop of lines 148-151 visits before
\* `if i > 256: break`, as a 1-based position of a list of n names: the
\* largest k <= n with Python index i = k - 1 not above RenameLimit.
LoopLast(n) == IF (n - 1) > RenameLimit THEN RenameLimit + 1 ELSE n

\* Off-by-one variant of NewName: the table is read one entry too far.
NewNameShifted(i, ch) ==
    CH_NAMES_EGI[IF i + 2 <= Len(CH_NAMES_EGI) THEN i + 2 ELSE 1]

\* Label-driven variant of NewName: a label that is a channel number selects
\* the table entry by that number used as a 0-based index, any other label
\* selects it by position.
NewNameByLabel(i, ch) ==
    IF \E k \in 1..(Len(CH_NAMES_EGI) - 1) : ToString(k) = ch
    THEN CH_NAMES_EGI[(CHOOSE k \in 1..(Len(CH_NAMES_EGI) - 1) : ToString(k) = ch) + 1]
    ELSE CH_NAMES_EGI[i + 1]

\* Line 151: the new name of the channel enumerated as (i, ch), i 0-based.
NewName(i, ch) == CH_NAMES_EGI[i + 1]

\* Lines 147-151: the dict new_chs, a function from old names to new names.
\* A later assignment to the same key replaces an earlier one.
new_chs(names) ==
    LET n == LoopLast(Len(names))
    IN  [ch \in {names[k] : k \in 1..n} |->
            LET last == CHOOSE k \in 1..n :
                            /\ names[k] = ch
                            /\ \A j \in (k + 1)..n : names[j] # ch
            IN  NewName(last - 1, ch)]

\* list.index: the first position of ch in names
Index(names, ch) ==
    CHOOSE k \in 1..Len(names) :
        /\ names[k] = ch
        /\ \A j \in 1..(k - 1) : names[j] # ch

\* Variant of MappedNames that rebuilds the list from the mapping alone:
\* the channels the mapping does not name are lost.
MappedNamesOnly(names, mapping) ==
    [k \in 1..Cardinality(DOMAIN mapping) |->
        IF names[k] \in DOMAIN mapping /\ Index(names, names[k]) = k
        THEN mapping[names[k]]
        ELSE names[k]]

\* raw.rename_channels(mapping), line 152, the names it computes on its
\* local copy: each key is located in the names as they were on entry
\* (ch_names.index(key)) and the channel there gets the key's value; the
\* others keep their names.
MappedNames(names, mapping) ==
    LET keys == DOMAIN mapping
    IN  [k \in 1..Len(names) |->
            IF names[k] \in keys /\ Index(names, names[k]) = k
            THEN mapping[names[k]]
            ELSE names[k]]

\* rename_channels refuses names that are not unique ("New channel names
\* are not unique, renaming failed") before it touches the recording.
Unique(names) == Cardinality(Range(names)) = Len(names)

\* Lines 146-152 as a function of the channel names.
RenameResult(names) == MappedNames(names, new_chs(names))

\* ------------------------------------------------------------------------
\* Inputs
\* ------------------------------------------------------------------------

\* Channel names mne.io.read_raw_egi can deliver (line 143).  They are
\* pairwise distinct, as mne keeps the names of a recording.  A recording
\* has the device's names ("E1", "E2", ... or "1", "2", ...) except for at
\* most one channel that carries a name of SpecialNames.
DeviceName(style, k) == IF style = "E" THEN "E" \o ToString(k) ELSE ToString(k)

DeviceNames(style, n) == [k \in 1..n |-> DeviceName(style, k)]

ChannelCounts == {2, RenameLimit, RenameLimit + 1, RenameLimit + 2, MaxChannels}

SpecialNames == {stim_channel, "Cz", "F8"}

SpecialPositions(n) == {1, RenameLimit + 1, RenameLimit + 2, n} \cap 1..n

Recordings ==
    {DeviceNames(st, n) : st \in {"E", "N"}, n \in ChannelCounts}
    \cup UNION {{[DeviceNames("E", n) EXCEPT ![p] = nm] :
                    p \in SpecialPositions(n), nm \in SpecialNames} :
                n \in ChannelCounts}

\* The recordings the conversion pipeline is run on: with and without a
\* stimulus channel, the stimulus channel inside and beyond the renamed
\* positions, and one whose renaming collides with a later channel.
PipelineRecordings ==
    { DeviceNames("E", 2),
      [DeviceNames("E", 2) EXCEPT ![2] = stim_channel],
      [DeviceNames("E", RenameLimit + 1) EXCEPT ![RenameLimit + 1] = stim_channel],
      [DeviceNames("E", MaxChannels) EXCEPT ![MaxChannels] = stim_channel],
      [DeviceNames("E", MaxChannels) EXCEPT ![MaxChannels] = "Cz"] }

\* Event tables mne.find_events can deliver (line 157): rows of
\* <<sample, previous value, new value>>, one row per transition, at
\* samples 10, 20, ...
EventTables ==
    UNION {[1..n -> 1..MaxCode] : n \in 0..MaxEvents}

EventRows(codes) == [k \in 1..Len(codes) |-> <<10 * k, 0, codes[k]>>]

\* An event-id mapping a caller can supply: a dict as a set of
\* <<label, code>> pairs
CallerEventIds == {{<<"stimulus", 1>>}}

\* A directory tree is the set of its directories and the set of its files,
\* each a path relative to the tree's root (a sequence of names).
EmptyTree == [dirs |-> {}, files |-> {}]

Tree(d, f) == [dirs |-> d, files |-> f]

\* What an archive can hold: the recording in a sub-folder, a "Contents"
\* that is a file, two recordings side by side, "Contents" at top level
\* with a "Contents" inside it.
Archives ==
    { Tree({<<"rec.mff">>, <<"rec.mff", "Contents">>}, {}),
      Tree({<<"rec.mff">>}, {<<"rec.mff", "Contents">>}),
      Tree({<<"a.mff">>, <<"a.mff", "Contents">>, <<"b.mff">>, <<"b.mff", "Contents">>}, {}),
      Tree({<<"Contents">>, <<"Contents", "Contents">>}, {}) }

\* What a working directory supplied by the caller can hold already
SuppliedDirs == {EmptyTree, Tree({<<"old.mff">>, <<"old.mff", "Contents">>}, {})}

Extensions == AllowedExtensions \cup {".txt"}

\* ------------------------------------------------------------------------
\* State
\* ------------------------------------------------------------------------

VARIABLES
    mff_ext,        \* suffix of the mff_source argument (line 66)
    working_dir,    \* the working_dir argument: "None", "str" or "Path"
    save_source,    \* argument
    overwrite,      \* argument
    event_id_arg,   \* the event_id argument as the caller passed it
    archive,        \* the tree inside the input file when it is an archive
    source_exists,  \* source_bids_path.exists() (line 136), for save_source
    wd_initial,     \* the working directory's content before the call
    wd_tree,        \* the working directory's content
    tmp_exists,     \* the temporary directory of line 107 exists
    pc,             \* the statement mff2bids is at
    mff_source,     \* the effective source _extract_folder returned
    loaded_names,   \* raw.info["ch_names"] as read_raw_egi delivered them
    ch_names,       \* raw.info["ch_names"]
    events_data,    \* local events_data
    event_id,       \* local event_id (the parameter, reassigned)
    written,        \* what the call has written under bids_root
    err,            \* the exception in flight or delivered to the caller
    raised_at       \* the place that raised it

vars == <<mff_ext, working_dir, save_source, overwrite, event_id_arg, archive,
          source_exists, wd_initial, wd_tree, tmp_exists, pc, mff_source,
          loaded_names, ch_names, events_data, event_id, written, err, raised_at>>

args == <<mff_ext, working_dir, save_source, overwrite, event_id_arg, archive,
          source_exists, wd_initial>>

Init ==
    /\ mff_ext \in Extensions
    /\ working_dir \in {"None", "str", "Path"}
    /\ save_source \in BOOLEAN
    /\ overwrite \in BOOLEAN
    /\ event_id_arg \in {None} \cup {Some(m) : m \in CallerEventIds}
    /\ archive \in (IF mff_ext \in ArchiveExtensions THEN Archives ELSE {EmptyTree})
    /\ source_exists \in (IF save_source THEN BOOLEAN ELSE {FALSE})
    /\ wd_initial \in (IF working_dir = "Path" THEN SuppliedDirs ELSE {EmptyTree})
    /\ wd_tree = wd_initial
    /\ tmp_exists = FALSE
    /\ pc = "with"
    /\ mff_source = None
    /\ loaded_names = <<>>
    /\ ch_names = <<>>
    /\ events_data = None
    /\ event_id = event_id_arg
    /\ written = {}
    /\ err = NoError
    /\ raised_at = ""

\* ------------------------------------------------------------------------
\* Exceptions
\* ------------------------------------------------------------------------

\* _check_value(ext, (".tar", ".zip", ".mff"), "extension"), line 67:
\* raises for a value that is not among the allowed ones.
check_value_ok(ext) == ext \in AllowedExtensions

ExtensionMessage(ext) == "Invalid value for the 'extension' parameter: " \o ext

\* The text of line 84
ContentMessage(ext) == "The '" \o ext \o "' archive does not contain a 'Content' folder."

\* The text of lines 138-139
CollisionMessage ==
    "Cannot write source data. Source data already exists but overwrite is set to False."

\* Line 84 raises a str: Python refuses it with this TypeError, which is the
\* exception the caller gets.
RaiseOfStr(text) == Error("TypeError", "exceptions must derive from BaseException")

\* An exception raised inside the `with` block of line 111: control goes to
\* the context manager's exit.
Raise(at, e) ==
    /\ pc' = "unwind"
    /\ err' = e
    /\ raised_at' = at

\* ------------------------------------------------------------------------
\* with working_dir as wd  (mff2bids.py:106-111)
\* ------------------------------------------------------------------------

\* No working directory given: tempfile.TemporaryDirectory creates one,
\* empty, and the with statement enters it.
MakeTemporaryDirectory ==
    /\ pc = "with"
    /\ working_dir = "None"
    /\ tmp_exists' = TRUE
    /\ wd_tree' = EmptyTree
    /\ pc' = "extract"
    /\ UNCHANGED <<args, mff_source, loaded_names, ch_names, events_data,
                   event_id, written, err, raised_at>>

\* A pathlib.Path is entered as a context manager and yields itself.
EnterSuppliedPath ==
    /\ pc = "with"
    /\ working_dir = "Path"
    /\ pc' = "extract"
    /\ UNCHANGED <<args, wd_tree, tmp_exists, mff_source, loaded_names, ch_names,
                   events_data, event_id, written, err, raised_at>>

\* A str is no context manager: the with statement raises before the block.
EnterSuppliedStr ==
    /\ pc = "with"
    /\ working_dir = "str"
    /\ pc' = "raised"
    /\ err' = Error("TypeError", "'str' object does not support the context manager protocol")
    /\ raised_at' = "with"
    /\ UNCHANGED <<args, wd_tree, tmp_exists, mff_source, loaded_names, ch_names,
                   events_data, event_id, written>>

\* TemporaryDirectory() itself fails: nothing was created, nothing entered.
MakeTemporaryDirectoryFails ==
    /\ pc = "with"
    /\ working_dir = "None"
    /\ pc' = "raised"
    /\ err' = Error("OSError", "tempfile.TemporaryDirectory")
    /\ raised_at' = "with"
    /\ UNCHANGED <<args, wd_tree, tmp_exists, mff_source, loaded_names, ch_names,
                   events_data, event_id, written>>

\* Variant of TmpAfterExit that removes the directory on the normal path only
TmpAfterReturnOnly(kind, exists, at) ==
    IF kind = "None" /\ at = "exit" THEN FALSE ELSE exists

\* TemporaryDirectory.__exit__ removes the directory, whether the block
\* ended normally (at = "exit") or by an exception (at = "unwind"); a Path
\* removes nothing.
TmpAfterExit(kind, exists, at) ==
    IF kind = "None" THEN FALSE ELSE exists

\* The end of the with block, lines 111-198: the context manager exits, then
\* the function returns bids_root or the exception goes on to the caller.
WithExit ==
    /\ pc \in {"exit", "unwind"}
    /\ tmp_exists' = TmpAfterExit(working_dir, tmp_exists, pc)
    /\ wd_tree' = IF tmp_exists' = tmp_exists THEN wd_tree ELSE EmptyTree
    /\ pc' = IF pc = "exit" THEN "returned" ELSE "raised"
    /\ UNCHANGED <<args, mff_source, loaded_names, ch_names, events_data,
                   event_id, written, err, raised_at>>

\* ------------------------------------------------------------------------
\* _extract_folder  (mff2bids.py:60-87), called at line 112 with dir_ = wd
\* ------------------------------------------------------------------------

\* archive.extractall(dir_), line 78
Merge(tree, ar) == Tree(tree.dirs \cup ar.dirs, tree.files \cup ar.files)

IsPrefix(a, b) == Len(a) < Len(b) /\ \A k \in 1..Len(a) : a[k] = b[k]

\* The roots os.walk reports with "Contents" among their directories
HasContents(dirs) == {r \in dirs \cup {<<>>} : Append(r, "Contents") \in dirs}

\* Variant of WalkResults that returns the "Contents" directory itself
WalkContentsItself(dirs) ==
    {Append(r, "Contents") :
        r \in {c \in HasContents(dirs) : \A a \in HasContents(dirs) : ~IsPrefix(a, c)}}

\* Lines 79-82: the directories the loop can return.  os.walk goes top-down
\* and visits sibling directories in the order the file system lists them,
\* so the first root with "Contents" is any such root none of whose
\* ancestors has "Contents".
WalkResults(dirs) ==
    {c \in HasContents(dirs) : \A a \in HasContents(dirs) : ~IsPrefix(a, c)}

WdPath(r) == [in |-> "wd", rel |-> r]

InputPath == [in |-> "mff_source", rel |-> <<>>]

\* Line 67: the extension is refused.
ExtractBadExtension ==
    /\ pc = "extract"
    /\ ~check_value_ok(mff_ext)
    /\ Raise("check_value", Error("ValueError", ExtensionMessage(mff_ext)))
    /\ UNCHANGED <<args, wd_tree, tmp_exists, mff_source, loaded_names, ch_names,
                   events_data, event_id, written>>

\* Lines 75-84: the archive is extracted into dir_ and dir_ is walked.
ExtractArchive ==
    /\ pc = "extract"
    /\ check_value_ok(mff_ext)
    /\ mff_ext \in ArchiveExtensions
    /\ wd_tree' = Merge(wd_tree, archive)
    /\ IF WalkResults(wd_tree'.dirs) = {}
       THEN /\ Raise("walk", RaiseOfStr(ContentMessage(mff_ext)))
            /\ UNCHANGED mff_source
       ELSE /\ \E r \in WalkResults(wd_tree'.dirs) : mff_source' = Some(WdPath(r))
            /\ pc' = "paths"
            /\ UNCHANGED <<err, raised_at>>
    /\ UNCHANGED <<args, tmp_exists, loaded_names, ch_names, events_data,
                   event_id, written>>

\* Lines 86-87: a .mff folder is returned as it is.
ExtractMff ==
    /\ pc = "extract"
    /\ check_value_ok(mff_ext)
    /\ mff_ext \notin ArchiveExtensions
    /\ mff_ext = ".mff"
    /\ mff_source' = Some(InputPath)
    /\ pc' = "paths"
    /\ UNCHANGED <<args, wd_tree, tmp_exists, loaded_names, ch_names,
                   events_data, event_id, written, err, raised_at>>

\* ------------------------------------------------------------------------
\* mff2bids, after the extraction  (mff2bids.py:114-198)
\* ------------------------------------------------------------------------

\* Variant of SourceCollides that never refuses
SourceNeverCollides(save, exists, over) == FALSE

\* Line 128 and line 136: source data are to be saved, are there already,
\* and may not be overwritten.
SourceCollides(save, exists, over) == save /\ exists /\ over = FALSE

\* Lines 114-140: the output paths are composed, which writes nothing, and
\* existing source data are refused.
ComposePaths ==
    /\ pc = "paths"
    /\ IF SourceCollides(save_source, source_exists, overwrite)
       THEN Raise("source_check", Error("ValueError", CollisionMessage))
       ELSE /\ pc' = "load"
            /\ UNCHANGED <<err, raised_at>>
    /\ UNCHANGED <<args, wd_tree, tmp_exists, mff_source, loaded_names, ch_names,
                   events_data, event_id, written>>

\* Line 143: the recording is loaded; its channel names are an input.
LoadFrom(recordings) ==
    /\ pc = "load"
    /\ \E names \in recordings :
        /\ loaded_names' = names
        /\ ch_names' = names
    /\ pc' = "rename"
    /\ UNCHANGED <<args, wd_tree, tmp_exists, mff_source, events_data,
                   event_id, written, err, raised_at>>

ReadRawEgi == LoadFrom(PipelineRecordings)

\* Lines 146-152: the channels are renamed, or rename_channels raises and
\* leaves the recording as it was.
RenameChannels ==
    /\ pc = "rename"
    /\ LET renamed == RenameResult(ch_names)
       IN  IF Unique(renamed)
           THEN /\ ch_names' = renamed
                /\ pc' = "events"
                /\ UNCHANGED <<err, raised_at>>
           ELSE /\ Raise("rename", Error("ValueError",
                            "New channel names are not unique, renaming failed"))
                /\ UNCHANGED ch_names
    /\ UNCHANGED <<args, wd_tree, tmp_exists, mff_source, loaded_names,
                   events_data, event_id, written>>

\* Line 163: the label of an event code
EventLabel(event) == "Unkown_" \o ToString(event)

\* Lines 160-163: one entry per distinct new value of the event table
SynthesizedEventId(rows) ==
    {<<EventLabel(event), event>> : event \in {rows[k][3] : k \in DOMAIN rows}}

\* Variant of AbsentEventId that keeps what the caller passed
AbsentEventIdKept(given) == given

\* Line 167: the event_id when there is no stimulus channel
AbsentEventId(given) == None

\* Lines 156-163: a stimulus channel is there: its events are found and,
\* when the caller gave no event_id, one is made up.
FindEvents ==
    /\ pc = "events"
    /\ stim_channel \in Range(ch_names)
    /\ \E codes \in EventTables :
        /\ events_data' = Some(EventRows(codes))
        /\ event_id' = IF event_id = None
                       THEN Some(SynthesizedEventId(EventRows(codes)))
                       ELSE event_id
    /\ pc' = "write_raw"
    /\ UNCHANGED <<args, wd_tree, tmp_exists, mff_source, loaded_names, ch_names,
                   written, err, raised_at>>

\* Lines 165-167: no stimulus channel.
NoStimChannel ==
    /\ pc = "events"
    /\ stim_channel \notin Range(ch_names)
    /\ events_data' = None
    /\ event_id' = AbsentEventId(event_id)
    /\ pc' = "write_raw"
    /\ UNCHANGED <<args, wd_tree, tmp_exists, mff_source, loaded_names, ch_names,
                   written, err, raised_at>>

\* Lines 181-189: write_raw_bids gets events_data and event_id as they are
\* now and writes the recording with its sidecar files.
WriteRawBids ==
    /\ pc = "write_raw"
    /\ written' = written \cup {"recording", "sidecar"}
                          \cup (IF events_data = None THEN {} ELSE {"events"})
    /\ pc' = "sidecar"
    /\ UNCHANGED <<args, wd_tree, tmp_exists, mff_source, loaded_names, ch_names,
                   events_data, event_id, err, raised_at>>

\* Line 190
UpdateSidecarJson ==
    /\ pc = "sidecar"
    /\ written' = written \cup {"sidecar_update"}
    /\ pc' = "description"
    /\ UNCHANGED <<args, wd_tree, tmp_exists, mff_source, loaded_names, ch_names,
                   events_data, event_id, err, raised_at>>

\* Lines 191-193
MakeDatasetDescription ==
    /\ pc = "description"
    /\ written' = written \cup {"dataset_description"}
    /\ pc' = "copy_source"
    /\ UNCHANGED <<args, wd_tree, tmp_exists, mff_source, loaded_names, ch_names,
                   events_data, event_id, err, raised_at>>

\* Lines 195-196: copytree(..., dirs_exist_ok=overwrite) refuses an existing
\* destination unless overwrite is set.
CopySource ==
    /\ pc = "copy_source"
    /\ IF save_source /\ source_exists /\ ~overwrite
       THEN /\ Raise("copytree", Error("FileExistsError", "sourcedata"))
            /\ UNCHANGED written
       ELSE /\ written' = written \cup (IF save_source THEN {"sourcedata"} ELSE {})
            /\ pc' = "exit"
            /\ UNCHANGED <<err, raised_at>>
    /\ UNCHANGED <<args, wd_tree, tmp_exists, mff_source, loaded_names, ch_names,
                   events_data, event_id>>

\* The library calls that can fail for reasons of their own: opening the
\* archive (line 77), BIDSPath (116), read_raw_egi (143), find_events (157),
\* write_raw_bids (181), update_sidecar_json (190),
\* make_dataset_description (191), copytree (196).
CanFail ==
    \/ pc = "extract" /\ check_value_ok(mff_ext) /\ mff_ext \in ArchiveExtensions
    \/ pc \in {"paths", "load", "write_raw", "sidecar", "description"}
    \/ pc = "events" /\ stim_channel \in Range(ch_names)
    \/ pc = "copy_source" /\ save_source

LibraryCallRaises ==
    /\ CanFail
    /\ Raise(pc, Error("LibraryError", pc))
    /\ UNCHANGED <<args, wd_tree, tmp_exists, mff_source, loaded_names, ch_names,
                   events_data, event_id, written>>

Next ==
    \/ MakeTemporaryDirectory
    \/ MakeTemporaryDirectoryFails
    \/ EnterSuppliedPath
    \/ EnterSuppliedStr
    \/ ExtractBadExtension
    \/ ExtractArchive
    \/ ExtractMff
    \/ ComposePaths
    \/ ReadRawEgi
    \/ RenameChannels
    \/ FindEvents
    \/ NoStimChannel
    \/ WriteRawBids
    \/ UpdateSidecarJson
    \/ MakeDatasetDescription
    \/ CopySource
    \/ LibraryCallRaises
    \/ WithExit

Spec == Init /\ [][Next]_vars

\* ------------------------------------------------------------------------
\* The rename step on its own, applied and applied again
\* ------------------------------------------------------------------------

InitRename ==
    /\ mff_ext = ".mff"
    /\ working_dir = "None"
    /\ save_source = FALSE
    /\ overwrite = FALSE
    /\ event_id_arg = None
    /\ archive = EmptyTree
    /\ source_exists = FALSE
    /\ wd_initial = EmptyTree
    /\ wd_tree = EmptyTree
    /\ tmp_exists = TRUE
    /\ pc = "load"
    /\ mff_source = Some(InputPath)
    /\ loaded_names = <<>>
    /\ ch_names = <<>>
    /\ events_data = None
    /\ event_id = None
    /\ written = {}
    /\ err = NoError
    /\ raised_at = ""

ReadRawEgiAny == LoadFrom(Recordings)

\* Lines 146-152 once more, on the names the first application left.
RenameAgain ==
    /\ pc = "events"
    /\ LET renamed == RenameResult(ch_names)
       IN  IF Unique(renamed)
           THEN /\ ch_names' = renamed
                /\ pc' = "renamed_again"
                /\ UNCHANGED <<err, raised_at>>
           ELSE /\ Raise("rename_again", Error("ValueError",
                            "New channel names are not unique, renaming failed"))
                /\ UNCHANGED ch_names
    /\ UNCHANGED <<args, wd_tree, tmp_exists, mff_source, loaded_names,
                   events_data, event_id, written>>

NextRename ==
    \/ ReadRawEgiAny
    \/ RenameChannels
    \/ RenameAgain

SpecRename == InitRename /\ [][NextRename]_vars

\* ------------------------------------------------------------------------
\* Properties
\* ------------------------------------------------------------------------

\* The rename step of lines 146-152 has run and succeeded.
Renamed == pc = "events"

\* The rename step has run, successfully or not.
RenameDone == pc = "events" \/ (pc = "unwind" /\ raised_at = "rename")

\* C1, as stated: after the rename step every channel at 0-based position
\* i >= 256 has the name it had before.
C1_UntouchedFrom256 ==
    RenameDone =>
        /\ Len(ch_names) = Len(loaded_names)
        /\ \A k \in 1..Len(ch_names) :
            (k - 1) >= 256 => ch_names[k] = loaded_names[k]

\* C1, amended: after the rename step every channel at 0-based position
\* i >= 257, the length of the table, has the name it had before, and no
\* channel is added or lost.
C1_UntouchedBeyondTable ==
    RenameDone =>
        /\ Len(ch_names) = Len(loaded_names)
        /\ \A k \in 1..Len(ch_names) :
            (k - 1) >= Len(CH_NAMES_EGI) => ch_names[k] = loaded_names[k]

\* A recording with channels beyond the table has been renamed.
C1_Witness ==
    /\ Renamed
    /\ Len(ch_names) > Len(CH_NAMES_EGI)
    /\ ch_names[1] # loaded_names[1]
    /\ ch_names[Len(ch_names)] = loaded_names[Len(ch_names)]

\* C3: after the rename step the channel at 0-based position
\* i < min(n, 256) is named CH_NAMES_EGI[i], whatever it was called before,
\* and the channels are as many as before.
C3_PositionalNames ==
    Renamed =>
        /\ Len(ch_names) = Len(loaded_names)
        /\ \A k \in 1..Len(ch_names) :
            (k - 1) < 256 => ch_names[k] = CH_NAMES_EGI[k]

\* The recording labelled "1".."256" has been renamed to the table's first
\* 256 names.
C3_Witness ==
    /\ Renamed
    /\ loaded_names = DeviceNames("N", 256)
    /\ ch_names = SubSeq(CH_NAMES_EGI, 1, 256)
    /\ ch_names # loaded_names

\* C10: when the rename step has succeeded, applying it again succeeds and
\* leaves the names as the first application left them.
C10_Idempotent ==
    /\ pc = "unwind" => raised_at # "rename_again"
    /\ pc = "renamed_again" => ch_names = RenameResult(loaded_names)

\* The rename step has been applied twice to a recording it changes.
C10_Witness ==
    /\ pc = "renamed_again"
    /\ ch_names # loaded_names
    /\ Len(ch_names) > Len(CH_NAMES_EGI)

\* The distinct codes of an event table
Codes(rows) == {rows[k][3] : k \in DOMAIN rows}

\* C2: with a stimulus channel and event_id=None from the caller, the
\* writer gets the mapping with one entry "Unknown_<c>" -> c per distinct
\* event code c.
C2_UnknownLabels ==
    (pc = "write_raw" /\ events_data # None /\ event_id_arg = None) =>
        event_id = Some({<<"Unknown_" \o ToString(c), c>> : c \in Codes(events_data[1])})

\* C7: without a stimulus channel at event extraction the writer gets
\* events_data = None and event_id = None, whatever the caller passed.
C7_NoStimNoEvents ==
    (pc = "write_raw" /\ stim_channel \notin Range(ch_names)) =>
        (events_data = None /\ event_id = None)

\* The writer is about to be called for a recording without stimulus
\* channel although the caller supplied a mapping.
C7_Witness ==
    /\ pc = "write_raw"
    /\ stim_channel \notin Range(ch_names)
    /\ event_id_arg # None
    /\ event_id = None

\* C9: a recording loaded with a channel named "STI 014" keeps that name
\* through the rename step and has its events scanned.
C9_StimulusScanned ==
    (pc = "write_raw" /\ stim_channel \in Range(loaded_names)) =>
        /\ \A k \in 1..Len(loaded_names) :
            loaded_names[k] = stim_channel => ch_names[k] = stim_channel
        /\ events_data # None

\* The premise of C4: source data are to be saved, exist already and may
\* not be overwritten.
C4_Premise == save_source /\ ~overwrite /\ source_exists

\* C4: under that premise the call never returns normally and writes
\* nothing under the destination root, up to and including the moment the
\* error reaches the caller.
C4_RaisesBeforeWrites ==
    C4_Premise => (pc \notin {"exit", "returned"} /\ written = {})

\* The collision check has raised and the error has reached the caller.
C4_Witness ==
    /\ C4_Premise
    /\ pc = "raised"
    /\ raised_at = "source_check"
    /\ err = Error("ValueError", CollisionMessage)

\* C5: without a working directory from the caller, the temporary
\* directory is gone when the call has ended, by return or by exception.
C5_TemporaryDirectoryRemoved ==
    (working_dir = "None" /\ pc \in {"returned", "raised"}) => ~tmp_exists

\* The call has failed in the last write, after the temporary directory
\* was created and used.
C5_Witness ==
    /\ working_dir = "None"
    /\ pc = "raised"
    /\ raised_at = "copy_source"
    /\ written # {}
    /\ ~tmp_exists

\* C6: each of the three failure conditions reaches the caller as an
\* exception whose message describes that condition.
C6_DescriptiveMessages ==
    pc = "raised" =>
        /\ raised_at = "check_value" => err.msg = ExtensionMessage(mff_ext)
        /\ raised_at = "walk" => err.msg = ContentMessage(mff_ext)
        /\ raised_at = "source_check" => err.msg = CollisionMessage

\* _extract_folder has returned, or has raised and the exception is on its
\* way out of the with block.
ExtractReturned == pc = "paths"
ExtractRaised == pc = "unwind" /\ raised_at \in {"check_value", "walk", "extract"}

\* C8: _extract_folder either fails or returns an effective source.  For
\* .tar and .zip it has extracted the archive into the working directory
\* and returns a directory there with a "Contents" entry directly inside;
\* for .mff it returns the input path and extracts nothing; for any other
\* extension it fails and extracts nothing.
C8_ExtractFolder ==
    /\ (ExtractReturned /\ mff_ext \in {".tar", ".zip"}) =>
        /\ mff_source # None
        /\ mff_source[1].in = "wd"
        /\ mff_source[1].rel \in wd_tree.dirs \cup {<<>>}
        /\ Append(mff_source[1].rel, "Contents") \in wd_tree.dirs \cup wd_tree.files
        /\ archive.dirs \subseteq wd_tree.dirs
        /\ archive.files \subseteq wd_tree.files
    /\ (ExtractReturned /\ mff_ext = ".mff") =>
        /\ mff_source = Some(InputPath)
        /\ wd_tree = wd_initial
    /\ ExtractReturned => mff_ext \in {".tar", ".zip", ".mff"}
    /\ (mff_ext \notin {".tar", ".zip", ".mff"} /\ pc \notin {"with", "extract", "raised"}) =>
        /\ ExtractRaised
        /\ wd_tree = wd_initial
        /\ mff_source = None

\* A .zip archive has been extracted and the folder holding "Contents" is
\* returned.
C8_Witness ==
    /\ ExtractReturned
    /\ mff_ext = ".zip"
    /\ mff_source = Some(WdPath(<<"rec.mff">>))
    /\ <<"rec.mff", "Contents">> \in wd_tree.dirs
====
